---- MODULE Spec2Model ----
(***************************************************************************)
(* State-machine model of the multisig contract (multisig/src/lib.rs).     *)
(*                                                                         *)
(* One contract call is one atomic step.  A call that panics (assert!,     *)
(* expect, env::panic) aborts the whole transaction: none of its writes    *)
(* is persisted and none of its promises is scheduled.  Every handler is   *)
(* an operator that computes [panic, self, ...] from the contract state    *)
(* `self` and the call's inputs; the action of the handler commits         *)
(* `self` only when panic = "", so a panicking call is a stuttering step.  *)
(*                                                                         *)
(* Timestamps are counted in seconds (the source counts nanoseconds):      *)
(* REQUEST_COOLDOWN = 900_000_000_000 ns = 900 s.                          *)
(***************************************************************************)
EXTENDS Integers, Sequences, FiniteSets, TLC

VARIABLES
    state_exists,           \* env::state_exists(): the contract is initialized
    members,                \* MultiSigContract.members
    num_confirmations,      \* MultiSigContract.num_confirmations
    request_nonce,          \* MultiSigContract.request_nonce
    requests,               \* MultiSigContract.requests
    confirmations,          \* MultiSigContract.confirmations
    num_requests_pk,        \* MultiSigContract.num_requests_pk
    active_requests_limit,  \* MultiSigContract.active_requests_limit
    block_timestamp,        \* env::block_timestamp()
    executed,               \* history: request id -> record of its execute_request run
    outcome,                \* history: request id -> fate of the promise it scheduled
    stable                  \* history: pending ids added since num_confirmations last changed

vars == <<state_exists, members, num_confirmations, request_nonce, requests,
          confirmations, num_requests_pk, active_requests_limit,
          block_timestamp, executed, outcome, stable>>

contract == <<members, num_confirmations, request_nonce, requests,
              confirmations, num_requests_pk, active_requests_limit>>

----------------------------------------------------------------------------
(* Program constants *)

DEFAULT_ALLOWANCE == 0

REQUEST_COOLDOWN == 900

\* the bytes of the constant, cut into the names and the commas between them
MULTISIG_METHOD_NAMES ==
    <<"add_request", ",", "delete_request", ",", "confirm", ",", "add_and_confirm_request">>

DEFAULT_ACTIVE_REQUESTS_LIMIT == 12

\* the methods a call can name: the pub fn of impl MultiSigContract
Methods ==
    {"new", "get_members", "add_request", "add_request_and_confirm", "delete_request",
     "confirm", "get_request", "get_num_requests_per_member", "list_request_ids",
     "get_confirmations", "get_num_confirmations", "get_request_nonce"}

\* the methods of a member that change the state: the pub fn with &mut self
\* next to the constructor
MemberOperations == {"add_request", "add_request_and_confirm", "delete_request", "confirm"}

\* the method names a function-call access key permits: the method_names
\* bytes given to add_access_key, split at the commas
RECURSIVE method_names_of(_)
method_names_of(bytes) ==
    IF bytes = <<>> THEN {}
    ELSE IF Head(bytes) = "," THEN method_names_of(Tail(bytes))
    ELSE {Head(bytes)} \cup method_names_of(Tail(bytes))

(* Bounds of the model *)

MaxNonce == 1        \* add_request is explored while request_nonce < MaxNonce
MaxSlack == 1        \* block_timestamp is explored up to REQUEST_COOLDOWN + MaxSlack
MaxMembers == 2      \* length of the members list given to new
MaxQuorum == 2       \* num_confirmations values given to new and SetNumConfirmations
MaxStoreNonce == 2   \* nonce cap of the runs that keep several requests pending
MaxFreed == 1        \* requests that leave the store in the runs that fill the quota

----------------------------------------------------------------------------
(* Accounts, keys, members *)

CurrentAccount == "alice"

AccessKey(pk) == [public_key |-> pk]

Account(id) == [account_id |-> id]

IsAccessKey(member) == DOMAIN member = {"public_key"}

\* serde_json of the untagged enum: {"public_key":"..."} or {"account_id":"..."}
to_string(member) ==
    IF IsAccessKey(member)
    THEN <<"{", "public_key", ":", member.public_key, "}">>
    ELSE <<"{", "account_id", ":", member.account_id, "}">>

MemberPool == {AccessKey("k1"), AccessKey("k2"), Account("bob")}

\* VM contexts of the calls: (predecessor, signer key)
Contexts ==
    { [predecessor_account_id |-> CurrentAccount, signer_account_pk |-> "k1"],
      [predecessor_account_id |-> CurrentAccount, signer_account_pk |-> "k2"],
      [predecessor_account_id |-> "bob", signer_account_pk |-> "kb"] }

----------------------------------------------------------------------------
(* Maps (UnorderedMap) *)

EmptyMap == [x \in {} |-> 0]

MapHas(m, k) == k \in DOMAIN m

MapGetOr(m, k, d) == IF k \in DOMAIN m THEN m[k] ELSE d

MapInsert(m, k, v) == [x \in (DOMAIN m) \cup {k} |-> IF x = k THEN v ELSE m[x]]

MapRemove(m, k) == [x \in (DOMAIN m) \ {k} |-> m[x]]

MapRemoveAll(m, ks) == [x \in (DOMAIN m) \ ks |-> m[x]]

----------------------------------------------------------------------------
(* The contract state as one value *)

Self ==
    [ members |-> members,
      num_confirmations |-> num_confirmations,
      request_nonce |-> request_nonce,
      requests |-> requests,
      confirmations |-> confirmations,
      num_requests_pk |-> num_requests_pk,
      active_requests_limit |-> active_requests_limit ]

\* The result of a call: the panic message ("" when the call returns), the
\* state it leaves, what it returns ("promise", "true", "id" or "none"), the
\* batch of external actions of its promise, whether execute_request ran,
\* and the request id it returns (-1 when it returns none)
Panic(msg, self) ==
    [ panic |-> msg, self |-> self, value |-> "none", promise |-> <<>>,
      ran |-> FALSE, id |-> -1 ]

Ok(self, value, promise, ran) ==
    [ panic |-> "", self |-> self, value |-> value, promise |-> promise,
      ran |-> ran, id |-> -1 ]

----------------------------------------------------------------------------
(* Member registry *)

\* the identity current_member derives from the VM context
caller_identity(ctx) ==
    IF CurrentAccount = ctx.predecessor_account_id
    THEN AccessKey(ctx.signer_account_pk)
    ELSE Account(ctx.predecessor_account_id)

\* current_member without the look-up in the registry
current_member_unchecked(self, ctx) == {caller_identity(ctx)}

\* Option<MultisigMember>: {member} is Some(member), {} is None
current_member(self, ctx) ==
    LET member == caller_identity(ctx)
    IN  IF member \in self.members THEN {member} ELSE {}

add_member(self, promise, member) ==
    [ self |-> [self EXCEPT !.members = @ \cup {member}],
      promise |-> IF IsAccessKey(member)
                  THEN Append(promise,
                              [ action |-> "add_access_key",
                                public_key |-> member.public_key,
                                allowance |-> DEFAULT_ALLOWANCE,
                                receiver_id |-> CurrentAccount,
                                method_names |-> MULTISIG_METHOD_NAMES ])
                  ELSE promise ]

ERR_BELOW_QUORUM ==
    "Removing given member will make total number of members below number of confirmations"

\* delete_member that purges the pending requests of every member
delete_member_purges_all(self, promise, member) ==
    IF ~(Cardinality(self.members) - 1 >= self.num_confirmations)
    THEN Panic(ERR_BELOW_QUORUM, self)
    ELSE Ok([self EXCEPT
               !.confirmations = EmptyMap,
               !.requests = EmptyMap,
               !.num_requests_pk = MapRemove(@, to_string(member)),
               !.members = @ \ {member}],
            "none",
            IF IsAccessKey(member)
            THEN Append(promise, [action |-> "delete_key", public_key |-> member.public_key])
            ELSE promise,
            FALSE)

\* delete_member that leaves the confirmation sets of the purged requests
delete_member_keeps_confirmations(self, promise, member) ==
    IF ~(Cardinality(self.members) - 1 >= self.num_confirmations)
    THEN Panic(ERR_BELOW_QUORUM, self)
    ELSE Ok([self EXCEPT
               !.requests =
                   MapRemoveAll(@, {k \in DOMAIN self.requests :
                                       self.requests[k].member = member}),
               !.num_requests_pk = MapRemove(@, to_string(member)),
               !.members = @ \ {member}],
            "none",
            IF IsAccessKey(member)
            THEN Append(promise, [action |-> "delete_key", public_key |-> member.public_key])
            ELSE promise,
            FALSE)

\* delete_member that compares members.len(), not members.len() - 1
delete_member_off_by_one(self, promise, member) ==
    IF ~(Cardinality(self.members) >= self.num_confirmations)
    THEN Panic(ERR_BELOW_QUORUM, self)
    ELSE Ok([self EXCEPT
               !.confirmations =
                   MapRemoveAll(@, {k \in DOMAIN self.requests :
                                       self.requests[k].member = member}),
               !.requests =
                   MapRemoveAll(@, {k \in DOMAIN self.requests :
                                       self.requests[k].member = member}),
               !.num_requests_pk = MapRemove(@, to_string(member)),
               !.members = @ \ {member}],
            "none",
            IF IsAccessKey(member)
            THEN Append(promise, [action |-> "delete_key", public_key |-> member.public_key])
            ELSE promise,
            FALSE)

\* members.len() - 1 is u64 arithmetic; a call is only ever made by a member,
\* so members.len() >= 1 whenever delete_member runs.
delete_member(self, promise, member) ==
    IF ~(Cardinality(self.members) - 1 >= self.num_confirmations)
    THEN Panic(ERR_BELOW_QUORUM, self)
    ELSE LET request_ids == {k \in DOMAIN self.requests : self.requests[k].member = member}
             s1 == [self EXCEPT
                      !.confirmations = MapRemoveAll(@, request_ids),
                      !.requests = MapRemoveAll(@, request_ids),
                      !.num_requests_pk = MapRemove(@, to_string(member)),
                      !.members = @ \ {member}]
         IN  Ok(s1, "none",
                IF IsAccessKey(member)
                THEN Append(promise, [action |-> "delete_key", public_key |-> member.public_key])
                ELSE promise,
                FALSE)

ERR_MEMBERS_LIST == "Members list must be equal or larger than number of confirmations"

RECURSIVE add_members(_, _, _)
add_members(self, promise, list) ==
    IF list = <<>>
    THEN [self |-> self, promise |-> promise]
    ELSE LET r == add_member(self, promise, Head(list))
         IN  add_members(r.self, r.promise, Tail(list))

new(list, k) ==
    IF ~(Len(list) >= k)
    THEN Panic(ERR_MEMBERS_LIST, Self)
    ELSE LET multisig == [ members |-> {},
                          num_confirmations |-> k,
                          request_nonce |-> 0,
                          requests |-> EmptyMap,
                          confirmations |-> EmptyMap,
                          num_requests_pk |-> EmptyMap,
                          active_requests_limit |-> DEFAULT_ACTIVE_REQUESTS_LIMIT ]
             r == add_members(multisig, <<>>, list)
         IN  Ok(r.self, "none", r.promise, FALSE)

----------------------------------------------------------------------------
(* Requests and actions *)

Transfer == [type |-> "Transfer"]

AddMember(m) == [type |-> "AddMember", member |-> m]

DeleteMember(m) == [type |-> "DeleteMember", member |-> m]

AddKey(pk) == [type |-> "AddKey", public_key |-> pk]

SetNumConfirmations(n) == [type |-> "SetNumConfirmations", num_confirmations |-> n]

SetActiveRequestsLimit(n) == [type |-> "SetActiveRequestsLimit", active_requests_limit |-> n]

MultiSigRequest(receiver, actions) == [receiver_id |-> receiver, actions |-> actions]

ERR_SELF_REQUEST == "This method only works when receiver_id is equal to current_account_id"

ERR_SEPARATE == "This method should be a separate request"

ERR_NOT_MEMBER_ADD ==
    "Predecessor must be a member or transaction signed with key of given account"

ERR_TOO_MANY == "Account has too many active requests. Confirm or delete some."

ERR_COOLDOWN == "Request cannot be deleted immediately after creation."

ERR_NOT_MEMBER == "Caller (predecessor or signer) is not a member of this multisig"

ERR_NO_REQUEST == "No such request: either wrong number or already confirmed"

ERR_MISMATCH == "Internal error: confirmations mismatch requests"

ERR_ALREADY == "Already confirmed this request with this key"

ERR_NO_SUCH == "No such request"

\* assert_self_request that accepts every receiver
assert_self_request_any(receiver_id) == ""

\* "" when the assertion passes, the panic message otherwise
assert_self_request(receiver_id) ==
    IF receiver_id = CurrentAccount THEN "" ELSE ERR_SELF_REQUEST

\* assert_one_action_only without the count of the actions
assert_one_action_only_lax(receiver_id, num_actions) == assert_self_request(receiver_id)

assert_one_action_only(receiver_id, num_actions) ==
    IF assert_self_request(receiver_id) # ""
    THEN assert_self_request(receiver_id)
    ELSE IF num_actions = 1 THEN "" ELSE ERR_SEPARATE

\* the body of the `for action in request.actions` loop and what follows it
RECURSIVE run_actions(_, _, _, _, _)
run_actions(self, promise, actions, receiver_id, num_actions) ==
    IF actions = <<>>
    THEN Ok(self, "promise", promise, TRUE)
    ELSE
    LET action == Head(actions)
        rest == Tail(actions)
    IN  CASE action.type = "Transfer" ->
               run_actions(self, Append(promise, [action |-> "transfer"]),
                           rest, receiver_id, num_actions)
          [] action.type = "AddMember" ->
               IF assert_self_request(receiver_id) # ""
               THEN Panic(assert_self_request(receiver_id), self)
               ELSE LET r == add_member(self, promise, action.member)
                    IN  run_actions(r.self, r.promise, rest, receiver_id, num_actions)
          [] action.type = "DeleteMember" ->
               IF assert_self_request(receiver_id) # ""
               THEN Panic(assert_self_request(receiver_id), self)
               ELSE LET r == delete_member(self, promise, action.member)
                    IN  IF r.panic # ""
                        THEN r
                        ELSE run_actions(r.self, r.promise, rest, receiver_id, num_actions)
          [] action.type = "AddKey" ->
               IF assert_self_request(receiver_id) # ""
               THEN Panic(assert_self_request(receiver_id), self)
               ELSE run_actions(self,
                                Append(promise, [ action |-> "add_full_access_key",
                                                  public_key |-> action.public_key ]),
                                rest, receiver_id, num_actions)
          [] action.type = "SetNumConfirmations" ->
               IF assert_one_action_only(receiver_id, num_actions) # ""
               THEN Panic(assert_one_action_only(receiver_id, num_actions), self)
               ELSE Ok([self EXCEPT !.num_confirmations = action.num_confirmations],
                       "true", <<>>, TRUE)
          [] action.type = "SetActiveRequestsLimit" ->
               IF assert_one_action_only(receiver_id, num_actions) # ""
               THEN Panic(assert_one_action_only(receiver_id, num_actions), self)
               ELSE Ok([self EXCEPT !.active_requests_limit = action.active_requests_limit],
                       "true", <<>>, TRUE)

\* execute_request that leaves the loop at a configuration action and hands
\* back the promise instead of the value true
execute_request_returns_promise(self, request) ==
    LET r == run_actions(self, <<>>, request.actions, request.receiver_id,
                         Len(request.actions))
    IN  IF r.panic = "" /\ r.value = "true"
        THEN [r EXCEPT !.value = "promise"]
        ELSE r

\* execute_request that chains a completion callback after the batch
execute_request_with_callback(self, request) ==
    LET r == run_actions(self, <<>>, request.actions, request.receiver_id,
                         Len(request.actions))
    IN  IF r.panic = "" /\ r.value = "promise"
        THEN [r EXCEPT !.promise =
                 Append(@, [ action |-> "then",
                             receiver_id |-> CurrentAccount,
                             method_name |-> "on_transaction_completed" ])]
        ELSE r

execute_request(self, request) ==
    run_actions(self, <<>>, request.actions, request.receiver_id, Len(request.actions))

----------------------------------------------------------------------------
(* Request store and confirmation tracker *)

\* "" when the request is valid for the caller, the panic message otherwise
assert_valid_request(self, ctx, request_id) ==
    IF current_member(self, ctx) = {} THEN ERR_NOT_MEMBER
    ELSE IF ~MapHas(self.requests, request_id) THEN ERR_NO_REQUEST
    ELSE IF ~MapHas(self.confirmations, request_id) THEN ERR_MISMATCH
    ELSE ""

\* remove_request that leaves the record and its confirmations in the store
remove_request_keeps(self, request_id) ==
    [self |-> self, request |-> self.requests[request_id].request]

\* remove_request that leaves the confirmation set behind
remove_request_leaves_confirmations(self, request_id) ==
    LET request_with_signer == self.requests[request_id]
        original_member == request_with_signer.member
        num_requests == MapGetOr(self.num_requests_pk, to_string(original_member), 0)
    IN  [ self |-> [self EXCEPT
                      !.requests = MapRemove(@, request_id),
                      !.num_requests_pk =
                          MapInsert(@, to_string(original_member),
                                    IF num_requests > 0 THEN num_requests - 1
                                    ELSE num_requests)],
          request |-> request_with_signer.request ]

\* remove_request that leaves the count of the submitter as it is
remove_request_no_decrement(self, request_id) ==
    [ self |-> [self EXCEPT
                  !.confirmations = MapRemove(@, request_id),
                  !.requests = MapRemove(@, request_id)],
      request |-> self.requests[request_id].request ]

\* [self, request]: the state after the removal and the request removed
remove_request(self, request_id) ==
    LET request_with_signer == self.requests[request_id]
        original_member == request_with_signer.member
        num_requests == MapGetOr(self.num_requests_pk, to_string(original_member), 0)
    IN  [ self |-> [self EXCEPT
                      !.confirmations = MapRemove(@, request_id),
                      !.requests = MapRemove(@, request_id),
                      !.num_requests_pk =
                          MapInsert(@, to_string(original_member),
                                    IF num_requests > 0 THEN num_requests - 1
                                    ELSE num_requests)],
          request |-> request_with_signer.request ]

\* add_request that numbers the request by the size of the store
add_request_by_len(self, ctx, request, now) ==
    IF current_member(self, ctx) = {}
    THEN Panic(ERR_NOT_MEMBER_ADD, self)
    ELSE
    LET member == CHOOSE m \in current_member(self, ctx) : TRUE
        num_requests == MapGetOr(self.num_requests_pk, to_string(member), 0) + 1
        request_id == Cardinality(DOMAIN self.requests)
    IN  IF ~(num_requests <= self.active_requests_limit)
        THEN Panic(ERR_TOO_MANY, self)
        ELSE [Ok([self EXCEPT
                   !.num_requests_pk = MapInsert(@, to_string(member), num_requests),
                   !.requests = MapInsert(@, request_id,
                                          [ request |-> request,
                                            member |-> member,
                                            added_timestamp |-> now ]),
                   !.confirmations = MapInsert(@, request_id, {}),
                   !.request_nonce = request_id + 1],
                "id", <<>>, FALSE) EXCEPT !.id = request_id]

\* add_request that compares the count before the submission with the limit
add_request_counts_before(self, ctx, request, now) ==
    IF current_member(self, ctx) = {}
    THEN Panic(ERR_NOT_MEMBER_ADD, self)
    ELSE
    LET member == CHOOSE m \in current_member(self, ctx) : TRUE
        num_requests == MapGetOr(self.num_requests_pk, to_string(member), 0) + 1
    IN  IF ~(num_requests - 1 <= self.active_requests_limit)
        THEN Panic(ERR_TOO_MANY, self)
        ELSE [Ok([self EXCEPT
                   !.num_requests_pk = MapInsert(@, to_string(member), num_requests),
                   !.requests = MapInsert(@, self.request_nonce,
                                          [ request |-> request,
                                            member |-> member,
                                            added_timestamp |-> now ]),
                   !.confirmations = MapInsert(@, self.request_nonce, {}),
                   !.request_nonce = @ + 1],
                "id", <<>>, FALSE) EXCEPT !.id = self.request_nonce]

\* add_request that admits a request only below the limit
add_request_strict(self, ctx, request, now) ==
    IF current_member(self, ctx) = {}
    THEN Panic(ERR_NOT_MEMBER_ADD, self)
    ELSE
    LET member == CHOOSE m \in current_member(self, ctx) : TRUE
        num_requests == MapGetOr(self.num_requests_pk, to_string(member), 0) + 1
    IN  IF ~(num_requests < self.active_requests_limit)
        THEN Panic(ERR_TOO_MANY, self)
        ELSE [Ok([self EXCEPT
                   !.num_requests_pk = MapInsert(@, to_string(member), num_requests),
                   !.requests = MapInsert(@, self.request_nonce,
                                          [ request |-> request,
                                            member |-> member,
                                            added_timestamp |-> now ]),
                   !.confirmations = MapInsert(@, self.request_nonce, {}),
                   !.request_nonce = @ + 1],
                "id", <<>>, FALSE) EXCEPT !.id = self.request_nonce]

add_request(self, ctx, request, now) ==
    IF current_member(self, ctx) = {}
    THEN Panic(ERR_NOT_MEMBER_ADD, self)
    ELSE
    LET member == CHOOSE m \in current_member(self, ctx) : TRUE
        num_requests == MapGetOr(self.num_requests_pk, to_string(member), 0) + 1
    IN  IF ~(num_requests <= self.active_requests_limit)
        THEN Panic(ERR_TOO_MANY, self)
        ELSE [Ok([self EXCEPT
                   !.num_requests_pk = MapInsert(@, to_string(member), num_requests),
                   !.requests = MapInsert(@, self.request_nonce,
                                          [ request |-> request,
                                            member |-> member,
                                            added_timestamp |-> now ]),
                   !.confirmations = MapInsert(@, self.request_nonce, {}),
                   !.request_nonce = @ + 1],
                "id", <<>>, FALSE) EXCEPT !.id = self.request_nonce]

\* confirm without the "Already confirmed" assertion
confirm_twice(self, ctx, request_id) ==
    IF assert_valid_request(self, ctx, request_id) # ""
    THEN Panic(assert_valid_request(self, ctx, request_id), self)
    ELSE
    LET member == CHOOSE m \in current_member(self, ctx) : TRUE
        confs == self.confirmations[request_id]
    IN  IF Cardinality(confs) + 1 >= self.num_confirmations
        THEN LET r == remove_request(self, request_id)
             IN  execute_request(r.self, r.request)
        ELSE Ok([self EXCEPT
                   !.confirmations =
                       MapInsert(@, request_id, confs \cup {to_string(member)})],
                "true", <<>>, FALSE)

\* confirm that compares the confirmations before the caller's with the quorum
confirm_counts_before(self, ctx, request_id) ==
    IF assert_valid_request(self, ctx, request_id) # ""
    THEN Panic(assert_valid_request(self, ctx, request_id), self)
    ELSE
    LET member == CHOOSE m \in current_member(self, ctx) : TRUE
        confs == self.confirmations[request_id]
    IN  IF to_string(member) \in confs
        THEN Panic(ERR_ALREADY, self)
        ELSE IF Cardinality(confs) >= self.num_confirmations
        THEN LET r == remove_request(self, request_id)
             IN  execute_request(r.self, r.request)
        ELSE Ok([self EXCEPT
                   !.confirmations =
                       MapInsert(@, request_id, confs \cup {to_string(member)})],
                "true", <<>>, FALSE)

\* confirm that takes the request off its submitter's count at every approval
confirm_frees_quota(self, ctx, request_id) ==
    IF assert_valid_request(self, ctx, request_id) # ""
    THEN Panic(assert_valid_request(self, ctx, request_id), self)
    ELSE
    LET member == CHOOSE m \in current_member(self, ctx) : TRUE
        confs == self.confirmations[request_id]
        key == to_string(self.requests[request_id].member)
    IN  IF to_string(member) \in confs
        THEN Panic(ERR_ALREADY, self)
        ELSE IF Cardinality(confs) + 1 >= self.num_confirmations
        THEN LET r == remove_request(self, request_id)
             IN  execute_request(r.self, r.request)
        ELSE Ok([self EXCEPT
                   !.confirmations =
                       MapInsert(@, request_id, confs \cup {to_string(member)}),
                   !.num_requests_pk =
                       MapInsert(@, key, IF MapGetOr(@, key, 0) > 0
                                         THEN MapGetOr(@, key, 0) - 1
                                         ELSE 0)],
                "true", <<>>, FALSE)

confirm(self, ctx, request_id) ==
    IF assert_valid_request(self, ctx, request_id) # ""
    THEN Panic(assert_valid_request(self, ctx, request_id), self)
    ELSE
    LET member == CHOOSE m \in current_member(self, ctx) : TRUE
        confs == self.confirmations[request_id]
    IN  IF to_string(member) \in confs
        THEN Panic(ERR_ALREADY, self)
        ELSE IF Cardinality(confs) + 1 >= self.num_confirmations
        THEN LET r == remove_request(self, request_id)
             IN  execute_request(r.self, r.request)
        ELSE Ok([self EXCEPT
                   !.confirmations =
                       MapInsert(@, request_id, confs \cup {to_string(member)})],
                "true", <<>>, FALSE)

\* add_request_and_confirm that adds the request and forgets to confirm it
add_request_and_confirm_only_adds(self, ctx, request, now) ==
    add_request(self, ctx, request, now)

add_request_and_confirm(self, ctx, request, now) ==
    LET a == add_request(self, ctx, request, now)
    IN  IF a.panic # ""
        THEN a
        ELSE LET c == confirm(a.self, ctx, a.id)
             IN  [c EXCEPT !.id = IF c.panic = "" THEN a.id ELSE -1]

\* delete_request that takes the request off the count of its caller
delete_request_counts_caller(self, ctx, request_id, now) ==
    IF assert_valid_request(self, ctx, request_id) # ""
    THEN Panic(assert_valid_request(self, ctx, request_id), self)
    ELSE IF ~(now > self.requests[request_id].added_timestamp + REQUEST_COOLDOWN)
    THEN Panic(ERR_COOLDOWN, self)
    ELSE LET key == to_string(caller_identity(ctx))
             num_requests == MapGetOr(self.num_requests_pk, key, 0)
         IN  Ok([self EXCEPT
                   !.confirmations = MapRemove(@, request_id),
                   !.requests = MapRemove(@, request_id),
                   !.num_requests_pk =
                       MapInsert(@, key, IF num_requests > 0 THEN num_requests - 1
                                         ELSE num_requests)],
                "none", <<>>, FALSE)

\* delete_request that lets a request go at the end of the cooldown
delete_request_at_boundary(self, ctx, request_id, now) ==
    IF assert_valid_request(self, ctx, request_id) # ""
    THEN Panic(assert_valid_request(self, ctx, request_id), self)
    ELSE IF ~(now >= self.requests[request_id].added_timestamp + REQUEST_COOLDOWN)
    THEN Panic(ERR_COOLDOWN, self)
    ELSE Ok(remove_request(self, request_id).self, "none", <<>>, FALSE)

delete_request(self, ctx, request_id, now) ==
    IF assert_valid_request(self, ctx, request_id) # ""
    THEN Panic(assert_valid_request(self, ctx, request_id), self)
    ELSE IF ~(now > self.requests[request_id].added_timestamp + REQUEST_COOLDOWN)
    THEN Panic(ERR_COOLDOWN, self)
    ELSE Ok(remove_request(self, request_id).self, "none", <<>>, FALSE)

----------------------------------------------------------------------------
(* View methods: [panic, value] *)

get_request(self, request_id) ==
    IF MapHas(self.requests, request_id)
    THEN [panic |-> "", value |-> self.requests[request_id].request]
    ELSE [panic |-> ERR_NO_SUCH, value |-> "none"]

get_num_requests_per_member(self, member) ==
    MapGetOr(self.num_requests_pk, to_string(member), 0)

list_request_ids(self) == DOMAIN self.requests

get_confirmations(self, request_id) ==
    IF MapHas(self.confirmations, request_id)
    THEN [panic |-> "", value |-> self.confirmations[request_id]]
    ELSE [panic |-> ERR_NO_SUCH, value |-> "none"]

get_members(self) == self.members

get_num_confirmations(self) == self.num_confirmations

get_request_nonce(self) == self.request_nonce

----------------------------------------------------------------------------
(* Inputs of the calls *)

\* the lists given to new: lists of k1 and k2 (duplicates included) in which
\* every k2 directly follows a k1
MemberLists ==
    {l \in UNION {[1..n -> {AccessKey("k1"), AccessKey("k2")}] : n \in 0..MaxMembers} :
        \A i \in 1..Len(l) :
            l[i] = AccessKey("k2") => (i > 1 /\ l[i - 1] = AccessKey("k1"))}

\* requests of one action that pass the checks of execute_request
CorePool ==
    {MultiSigRequest("bob", <<Transfer>>)}
        \cup {MultiSigRequest(CurrentAccount, <<a>>) :
                a \in {AddMember(m) : m \in MemberPool}
                        \cup {DeleteMember(m) : m \in MemberPool}
                        \cup {SetNumConfirmations(n) : n \in 0..MaxQuorum}}

\* requests that the checks of execute_request reject, next to some they accept
AdminPool ==
    {MultiSigRequest("bob", <<a>>) :
        a \in {Transfer, AddMember(Account("bob")), DeleteMember(AccessKey("k1")),
               AddKey("k9"), SetNumConfirmations(1), SetActiveRequestsLimit(1)}}
        \cup {MultiSigRequest("bob", <<Transfer, AddKey("k9")>>)}
        \cup {MultiSigRequest(CurrentAccount, <<a>>) :
                a \in {AddKey("k9"), SetNumConfirmations(1), SetActiveRequestsLimit(1)}}
        \cup {MultiSigRequest(CurrentAccount, actions) :
                actions \in { <<SetNumConfirmations(1), Transfer>>,
                              <<Transfer, SetNumConfirmations(1)>>,
                              <<SetActiveRequestsLimit(1), Transfer>>,
                              <<AddMember(Account("bob")), SetActiveRequestsLimit(1)>>,
                              <<AddMember(Account("bob")), SetNumConfirmations(0)>> }}

RequestIds == 0..(MaxNonce - 1)

\* requests of the runs that keep several requests pending at once
StorePool ==
    {MultiSigRequest("bob", <<Transfer>>)}
        \cup {MultiSigRequest(CurrentAccount, <<a>>) :
                a \in {DeleteMember(AccessKey("k2"))}}

StoreIds == 0..(MaxStoreNonce - 1)

\* the request of the tests of delete_request and of the request limit
ClockPool == {MultiSigRequest("bob", <<Transfer>>)}

\* one submission more than the default limit admits
QuotaNonce == DEFAULT_ACTIVE_REQUESTS_LIMIT + 1

QuotaIds == 0..(QuotaNonce - 1)

\* requests of one and of two actions whose run schedules a promise
DispatchPool ==
    { MultiSigRequest("bob", <<Transfer>>),
      MultiSigRequest(CurrentAccount, <<Transfer, AddKey("k9")>>) }

\* a transfer next to the two configuration requests
ConfigPool ==
    {MultiSigRequest("bob", <<Transfer>>)}
        \cup {MultiSigRequest(CurrentAccount, <<a>>) :
                a \in {SetNumConfirmations(1), SetActiveRequestsLimit(0)}}

\* a transfer next to two requests that lower the limit
LimitPool ==
    {MultiSigRequest("bob", <<Transfer>>)}
        \cup {MultiSigRequest(CurrentAccount, <<SetActiveRequestsLimit(n)>>) : n \in 0..1}

\* a transfer next to a request that lowers the quorum and one that removes
\* a member
QuorumPool ==
    {MultiSigRequest("bob", <<Transfer>>)}
        \cup {MultiSigRequest(CurrentAccount, <<a>>) :
                a \in {SetNumConfirmations(1), DeleteMember(AccessKey("k2"))}}

----------------------------------------------------------------------------
(* History of the run *)

\* the run of execute_request for request_id recorded by a committed call:
\* how many runs so far, the request run, n confirmers (the caller included)
\* under quorum k, `fixed` when num_confirmations did not change since the
\* request was added
LogExecution(r, request_id, request, n, fixed) ==
    IF r.panic = "" /\ r.ran
    THEN MapInsert(executed, request_id,
                   [ count |-> MapGetOr(executed, request_id, [count |-> 0]).count + 1,
                     request |-> request,
                     n |-> n,
                     k |-> num_confirmations,
                     fixed |-> fixed ])
    ELSE executed

LogPromise(r, request_id) ==
    IF r.panic = "" /\ r.ran /\ r.value = "promise"
    THEN MapInsert(outcome, request_id, "scheduled")
    ELSE outcome

LogStable(r, added) ==
    IF r.panic # "" THEN stable
    ELSE IF r.self.num_confirmations # num_confirmations THEN {}
    ELSE (stable \cup added) \cap DOMAIN r.self.requests

\* the contract state a call leaves: the state it computed when it returns,
\* the state before the call when it panics
\* a call that panics keeps the writes it made before the panic
Committed_keeps_writes(r) == r.self

Committed(r) == IF r.panic = "" THEN r.self ELSE Self

Commit(r) ==
    /\ members' = Committed(r).members
    /\ num_confirmations' = Committed(r).num_confirmations
    /\ request_nonce' = Committed(r).request_nonce
    /\ requests' = Committed(r).requests
    /\ confirmations' = Committed(r).confirmations
    /\ num_requests_pk' = Committed(r).num_requests_pk
    /\ active_requests_limit' = Committed(r).active_requests_limit

----------------------------------------------------------------------------
(* The state machine *)

Init ==
    /\ state_exists = FALSE
    /\ members = {}
    /\ num_confirmations = 0
    /\ request_nonce = 0
    /\ requests = EmptyMap
    /\ confirmations = EmptyMap
    /\ num_requests_pk = EmptyMap
    /\ active_requests_limit = 0
    /\ block_timestamp = 0
    /\ executed = EmptyMap
    /\ outcome = EmptyMap
    /\ stable = {}

New(list, k) ==
    /\ ~state_exists
    /\ LET r == new(list, k)
       IN  /\ Commit(r)
           /\ state_exists' = (r.panic = "")
    /\ UNCHANGED <<block_timestamp, executed, outcome, stable>>

\* add_request, explored while request_nonce < cap
AddRequestUpTo(cap, ctx, request) ==
    /\ state_exists
    /\ request_nonce < cap
    /\ LET r == add_request(Self, ctx, request, block_timestamp)
       IN  /\ Commit(r)
           /\ stable' = LogStable(r, {request_nonce})
    /\ UNCHANGED <<state_exists, block_timestamp, executed, outcome>>

AddRequest(ctx, request) == AddRequestUpTo(MaxNonce, ctx, request)

\* add_request_and_confirm, explored while request_nonce < cap
AddRequestAndConfirmUpTo(cap, ctx, request) ==
    /\ state_exists
    /\ request_nonce < cap
    /\ LET r == add_request_and_confirm(Self, ctx, request, block_timestamp)
       IN  /\ Commit(r)
           /\ executed' = LogExecution(r, request_nonce, request, 1, TRUE)
           /\ outcome' = LogPromise(r, request_nonce)
           /\ stable' = LogStable(r, {request_nonce})
    /\ UNCHANGED <<state_exists, block_timestamp>>

AddRequestAndConfirm(ctx, request) == AddRequestAndConfirmUpTo(MaxNonce, ctx, request)

Confirm(ctx, request_id) ==
    /\ state_exists
    /\ LET r == confirm(Self, ctx, request_id)
       IN  /\ Commit(r)
           /\ executed' = LogExecution(r, request_id,
                                       get_request(Self, request_id).value,
                                       Cardinality(MapGetOr(confirmations, request_id, {})) + 1,
                                       request_id \in stable)
           /\ outcome' = LogPromise(r, request_id)
           /\ stable' = LogStable(r, {})
    /\ UNCHANGED <<state_exists, block_timestamp>>

DeleteRequest(ctx, request_id) ==
    /\ state_exists
    /\ LET r == delete_request(Self, ctx, request_id, block_timestamp)
       IN  /\ Commit(r)
           /\ stable' = LogStable(r, {})
    /\ UNCHANGED <<state_exists, block_timestamp, executed, outcome>>

\* the execution environment reports the fate of a scheduled promise; the
\* contract registers no callback, so nothing of its state changes
PromiseResolved(request_id, success) ==
    /\ MapHas(outcome, request_id)
    /\ outcome[request_id] = "scheduled"
    /\ outcome' = MapInsert(outcome, request_id, IF success THEN "succeeded" ELSE "failed")
    /\ UNCHANGED <<state_exists, contract, block_timestamp, executed, stable>>

\* block time advances between calls
Tick(d) ==
    /\ state_exists
    /\ block_timestamp + d <= REQUEST_COOLDOWN + MaxSlack
    /\ block_timestamp' = block_timestamp + d
    /\ UNCHANGED <<state_exists, contract, executed, outcome, stable>>

Calls(Pool) ==
    \/ \E ctx \in Contexts, request \in Pool : AddRequest(ctx, request)
    \/ \E ctx \in Contexts, request \in Pool : AddRequestAndConfirm(ctx, request)
    \/ \E ctx \in Contexts, request_id \in RequestIds : Confirm(ctx, request_id)
    \/ \E ctx \in Contexts, request_id \in RequestIds : DeleteRequest(ctx, request_id)

Construct == \E list \in MemberLists, k \in 0..MaxQuorum : New(list, k)

Next ==
    \/ Construct
    \/ Calls(CorePool)
    \/ \E request_id \in RequestIds, success \in BOOLEAN : PromiseResolved(request_id, success)
    \/ Tick(REQUEST_COOLDOWN + 1)

Spec == Init /\ [][Next]_vars

NextAdmin ==
    \/ Construct
    \/ Calls(AdminPool)
    \/ Tick(REQUEST_COOLDOWN + 1)

SpecAdmin == Init /\ [][NextAdmin]_vars

\* the four calls with requests of Pool, explored while request_nonce < cap
CallsUpTo(cap, Pool) ==
    \/ \E ctx \in Contexts, request \in Pool : AddRequestUpTo(cap, ctx, request)
    \/ \E ctx \in Contexts, request \in Pool : AddRequestAndConfirmUpTo(cap, ctx, request)
    \/ \E ctx \in Contexts, request_id \in 0..(cap - 1) : Confirm(ctx, request_id)
    \/ \E ctx \in Contexts, request_id \in 0..(cap - 1) : DeleteRequest(ctx, request_id)

\* several requests pending at once, member removal and re-addition
NextStore ==
    \/ Construct
    \/ CallsUpTo(MaxStoreNonce, StorePool)
    \/ Tick(REQUEST_COOLDOWN + 1)

SpecStore == Init /\ [][NextStore]_vars

\* block time at, before and after the end of the cooldown
NextClock ==
    \/ Construct
    \/ CallsUpTo(MaxStoreNonce, ClockPool)
    \/ Tick(REQUEST_COOLDOWN)
    \/ Tick(REQUEST_COOLDOWN + 1)

SpecClock == Init /\ [][NextClock]_vars

\* the requests that left the store so far
Freed == request_nonce - Cardinality(DOMAIN requests)

\* one member fills its quota of active requests (test_too_many_requests);
\* at most MaxFreed requests leave the store
NextQuota ==
    \/ \E k \in 0..1 : New(<<AccessKey("k1")>>, k)
    \/ \E ctx \in Contexts, request \in ClockPool :
           AddRequestUpTo(QuotaNonce, ctx, request)
    \/ \E ctx \in Contexts, request \in ClockPool :
           Freed < MaxFreed /\ AddRequestAndConfirmUpTo(QuotaNonce, ctx, request)
    \/ \E ctx \in Contexts, request_id \in QuotaIds :
           Freed < MaxFreed /\ Confirm(ctx, request_id)
    \/ \E ctx \in Contexts, request_id \in QuotaIds :
           Freed < MaxFreed /\ DeleteRequest(ctx, request_id)
    \/ Tick(REQUEST_COOLDOWN + 1)

SpecQuota == Init /\ [][NextQuota]_vars

\* requests are run and the environment reports what became of their promises
NextDispatch ==
    \/ Construct
    \/ Calls(DispatchPool)
    \/ \E request_id \in RequestIds, success \in BOOLEAN : PromiseResolved(request_id, success)
    \/ Tick(REQUEST_COOLDOWN + 1)

SpecDispatch == Init /\ [][NextDispatch]_vars

\* two key holders change the quorum and the limit while requests are pending
NextConfig ==
    \/ \E k \in 1..MaxQuorum : New(<<AccessKey("k1"), AccessKey("k2")>>, k)
    \/ CallsUpTo(MaxStoreNonce, ConfigPool)
    \/ Tick(REQUEST_COOLDOWN + 1)

SpecConfig == Init /\ [][NextConfig]_vars

\* the three members of the tests; one of them is removed while requests
\* are pending
NextRemoval ==
    \/ \E k \in 1..MaxQuorum :
           New(<<AccessKey("k1"), AccessKey("k2"), Account("bob")>>, k)
    \/ CallsUpTo(MaxStoreNonce, StorePool)
    \/ Tick(REQUEST_COOLDOWN + 1)

SpecRemoval == Init /\ [][NextRemoval]_vars

\* two key holders lower the limit while requests are pending
NextLimit ==
    \/ \E k \in 1..MaxQuorum : New(<<AccessKey("k1"), AccessKey("k2")>>, k)
    \/ CallsUpTo(MaxStoreNonce, LimitPool)
    \/ Tick(REQUEST_COOLDOWN + 1)

SpecLimit == Init /\ [][NextLimit]_vars

\* two key holders change the quorum and the members while requests are
\* pending
NextQuorum ==
    \/ \E k \in 0..MaxQuorum : New(<<AccessKey("k1"), AccessKey("k2")>>, k)
    \/ CallsUpTo(MaxStoreNonce, QuorumPool)
    \/ Tick(REQUEST_COOLDOWN + 1)

SpecQuorum == Init /\ [][NextQuorum]_vars

----------------------------------------------------------------------------
(* Properties *)

Members(self) == {ctx \in Contexts : caller_identity(ctx) \in self.members}

Pending == DOMAIN requests

\* the call confirm(request_id) of ctx would reach quorum
ReachesQuorum(ctx, request_id) ==
    /\ request_id \in Pending
    /\ ctx \in Members(Self)
    /\ to_string(caller_identity(ctx)) \notin confirmations[request_id]
    /\ Cardinality(confirmations[request_id]) + 1 >= num_confirmations

\* C1: while num_confirmations = k is not changed, a request is run by
\* execute_request in the confirm call of the k-th distinct member to confirm
\* it and in no earlier call; add_request and delete_request never run one.
QuorumExactness ==
    /\ \A id \in DOMAIN executed :
           executed[id].fixed => executed[id].n = executed[id].k
    /\ \A ctx \in Contexts, id \in RequestIds :
           ~delete_request(Self, ctx, id, block_timestamp).ran
    /\ \A ctx \in Contexts, request \in CorePool :
           ~add_request(Self, ctx, request, block_timestamp).ran

\* C2: every request id is run by execute_request at most once, inside a
\* confirm call that reached quorum, and no call can run the same id again.
ExactlyOnce ==
    /\ \A id \in DOMAIN executed :
           /\ executed[id].count = 1
           /\ executed[id].n >= executed[id].k
           /\ \A ctx \in Contexts :
                  /\ confirm(Self, ctx, id).panic # ""
                  /\ delete_request(Self, ctx, id, block_timestamp).panic # ""
    /\ \A ctx \in Contexts, id \in Pending :
           /\ confirm(Self, ctx, id).ran => ReachesQuorum(ctx, id)
           /\ ~delete_request(Self, ctx, id, block_timestamp).ran

ExactlyOnceWitness ==
    \E id \in DOMAIN executed : executed[id].k = 2 /\ executed[id].n = 2

\* C3: a member whose identity is in the confirmation set of a pending
\* request cannot confirm it again: the call panics with "Already confirmed",
\* also when it would reach quorum, and the confirmation set stays as it is.
AlreadyConfirmed(ctx, request_id) ==
    /\ request_id \in Pending
    /\ ctx \in Members(Self)
    /\ to_string(caller_identity(ctx)) \in confirmations[request_id]

ConfirmAtMostOnce ==
    \A ctx \in Contexts, id \in RequestIds :
        AlreadyConfirmed(ctx, id) =>
            /\ confirm(Self, ctx, id).panic = ERR_ALREADY
            /\ Committed(confirm(Self, ctx, id)).confirmations = confirmations
            /\ Committed(confirm(Self, ctx, id)) = Self

ConfirmAtMostOnceWitness ==
    \E ctx \in Contexts, id \in RequestIds :
        /\ AlreadyConfirmed(ctx, id)
        /\ Cardinality(confirmations[id]) + 1 >= num_confirmations

\* C4: a call of add_request, add_request_and_confirm, confirm or
\* delete_request whose caller resolves to no member of the registry (a
\* removed member included) panics and leaves the whole state as it was.
AuthorizationGate ==
    state_exists =>
        \A ctx \in Contexts :
            caller_identity(ctx) \notin members =>
                /\ \A request \in CorePool :
                       LET a == add_request(Self, ctx, request, block_timestamp)
                           c == add_request_and_confirm(Self, ctx, request, block_timestamp)
                       IN  /\ a.panic # "" /\ Committed(a) = Self
                           /\ c.panic # "" /\ Committed(c) = Self
                /\ \A id \in RequestIds :
                       LET c == confirm(Self, ctx, id)
                           d == delete_request(Self, ctx, id, block_timestamp)
                       IN  /\ c.panic # "" /\ Committed(c) = Self
                           /\ d.panic # "" /\ Committed(d) = Self

AuthorizationGateWitness ==
    \E ctx \in Contexts, id \in DOMAIN executed :
        /\ executed[id].request.actions = <<DeleteMember(caller_identity(ctx))>>
        /\ caller_identity(ctx) \notin members

MembersAtLeastQuorum == state_exists => Cardinality(members) >= num_confirmations

\* C7: num_confirmations is at least 1 in every state after construction.
QuorumAtLeastOne == state_exists => num_confirmations >= 1

\* C8: DeleteMember{member} panics whenever the registry without that member
\* would be smaller than num_confirmations, and the call that runs it leaves
\* the members, the requests and the counts as they were.
BelowFloor(member) == Cardinality(members \ {member}) < num_confirmations

QuorumFloor ==
    state_exists =>
        /\ \A m \in MemberPool :
               BelowFloor(m) => delete_member(Self, <<>>, m).panic = ERR_BELOW_QUORUM
        /\ \A ctx \in Contexts, id \in RequestIds, m \in MemberPool :
               ( /\ ReachesQuorum(ctx, id)
                 /\ requests[id].request = MultiSigRequest(CurrentAccount, <<DeleteMember(m)>>)
                 /\ BelowFloor(m) ) =>
                   /\ confirm(Self, ctx, id).panic = ERR_BELOW_QUORUM
                   /\ Committed(confirm(Self, ctx, id)) = Self
        /\ \A ctx \in Members(Self), m \in MemberPool :
               LET r == add_request_and_confirm(
                            Self, ctx, MultiSigRequest(CurrentAccount, <<DeleteMember(m)>>),
                            block_timestamp)
               IN  (BelowFloor(m) /\ num_confirmations <= 1) =>
                       /\ r.panic \in {ERR_BELOW_QUORUM, ERR_TOO_MANY}
                       /\ Committed(r) = Self

QuorumFloorWitness ==
    \E ctx \in Contexts, id \in RequestIds, m \in members :
        /\ ReachesQuorum(ctx, id)
        /\ requests[id].request = MultiSigRequest(CurrentAccount, <<DeleteMember(m)>>)
        /\ Cardinality(members) = num_confirmations
        /\ Cardinality(confirmations[id]) >= 1

\* C9: a request whose receiver is not the contract's account and that holds
\* AddMember, DeleteMember, AddKey, SetNumConfirmations or
\* SetActiveRequestsLimit is never run to the end: the call that reaches
\* quorum panics, however many members confirmed, and changes nothing.
SelfOnly(action) ==
    action.type \in {"AddMember", "DeleteMember", "AddKey",
                     "SetNumConfirmations", "SetActiveRequestsLimit"}

ForeignAdmin(request) ==
    /\ request.receiver_id # CurrentAccount
    /\ \E i \in 1..Len(request.actions) : SelfOnly(request.actions[i])

SelfRequestInvariant ==
    /\ \A ctx \in Contexts, id \in RequestIds :
           (ReachesQuorum(ctx, id) /\ ForeignAdmin(requests[id].request)) =>
               /\ confirm(Self, ctx, id).panic = ERR_SELF_REQUEST
               /\ Committed(confirm(Self, ctx, id)) = Self
    /\ \A ctx \in Members(Self), request \in AdminPool :
           LET r == add_request_and_confirm(Self, ctx, request, block_timestamp)
           IN  (ForeignAdmin(request) /\ num_confirmations <= 1) =>
                   /\ r.panic \in {ERR_SELF_REQUEST, ERR_TOO_MANY}
                   /\ Committed(r) = Self
    /\ \A id \in DOMAIN executed : ~ForeignAdmin(executed[id].request)

SelfRequestInvariantWitness ==
    \E ctx \in Contexts, id \in RequestIds :
        /\ ReachesQuorum(ctx, id)
        /\ ForeignAdmin(requests[id].request)
        /\ Cardinality(confirmations[id]) >= 1

\* C10: a request that holds SetNumConfirmations or SetActiveRequestsLimit
\* next to another action, before or after it, is never run to the end: the
\* call that reaches quorum panics and changes nothing.
Bundled(request) ==
    /\ Len(request.actions) > 1
    /\ \E i \in 1..Len(request.actions) :
           request.actions[i].type \in {"SetNumConfirmations", "SetActiveRequestsLimit"}

SingleActionInvariant ==
    /\ \A ctx \in Contexts, id \in RequestIds :
           (ReachesQuorum(ctx, id) /\ Bundled(requests[id].request)) =>
               /\ confirm(Self, ctx, id).panic \in {ERR_SEPARATE, ERR_SELF_REQUEST}
               /\ Committed(confirm(Self, ctx, id)) = Self
    /\ \A ctx \in Members(Self), request \in AdminPool :
           LET r == add_request_and_confirm(Self, ctx, request, block_timestamp)
           IN  (Bundled(request) /\ num_confirmations <= 1) =>
                   /\ r.panic # ""
                   /\ Committed(r) = Self
    /\ \A id \in DOMAIN executed : ~Bundled(executed[id].request)

SingleActionInvariantWitness ==
    \E ctx \in Contexts, id \in RequestIds :
        /\ ReachesQuorum(ctx, id)
        /\ requests[id].request =
               MultiSigRequest(CurrentAccount, <<Transfer, SetNumConfirmations(1)>>)
        /\ Cardinality(confirmations[id]) >= 1

\* the pending requests submitted by member
Submitted(self, member) ==
    {id \in DOMAIN self.requests : self.requests[id].member = member}

\* C11: for a member with count c and limit L = active_requests_limit,
\* add_request returns exactly when c + 1 <= L and then stores the request and
\* sets the count to c + 1; otherwise it panics with the limit message before
\* any write.  With L = 12 the submission of a member with 12 active requests
\* panics, and once one of the 12 was run at quorum or deleted the next
\* submission returns.
RateLimitAdmission ==
    \A ctx \in Members(Self), request \in ClockPool :
        LET member == caller_identity(ctx)
            c == get_num_requests_per_member(Self, member)
            r == add_request(Self, ctx, request, block_timestamp)
        IN  /\ (r.panic = "") <=> (c + 1 <= active_requests_limit)
            /\ r.panic = "" =>
                   /\ get_num_requests_per_member(r.self, member) = c + 1
                   /\ r.id = request_nonce
                   /\ get_request(r.self, r.id).value = request
                   /\ Submitted(r.self, member) = Submitted(Self, member) \cup {r.id}
            /\ r.panic # "" =>
                   /\ r.panic = ERR_TOO_MANY
                   /\ r.self = Self
                   /\ Committed(r) = Self
            /\ (active_requests_limit = DEFAULT_ACTIVE_REQUESTS_LIMIT
                    /\ Cardinality(Submitted(Self, member)) = DEFAULT_ACTIVE_REQUESTS_LIMIT) =>
                   /\ r.panic = ERR_TOO_MANY
                   /\ \A caller \in Members(Self), id \in Submitted(Self, member) :
                          LET x == confirm(Self, caller, id)
                              d == delete_request(Self, caller, id, block_timestamp)
                          IN  /\ (x.panic = "" /\ x.ran) =>
                                     add_request(x.self, ctx, request, block_timestamp).panic = ""
                              /\ d.panic = "" =>
                                     add_request(d.self, ctx, request, block_timestamp).panic = ""

\* a thirteenth submission was admitted after one of twelve left the store
RateLimitAdmissionWitness ==
    /\ request_nonce = QuotaNonce
    /\ active_requests_limit = DEFAULT_ACTIVE_REQUESTS_LIMIT
    /\ \E m \in members :
           /\ get_num_requests_per_member(Self, m) = DEFAULT_ACTIVE_REQUESTS_LIMIT
           /\ Cardinality(Submitted(Self, m)) = DEFAULT_ACTIVE_REQUESTS_LIMIT

\* the member identities that ever hold a count
IdentitiesOf(self) ==
    MemberPool \cup {self.requests[id].member : id \in DOMAIN self.requests}

Identities == IdentitiesOf(Self)

\* every stored count is the number of pending records of its identity
CountsMatch(self) ==
    /\ \A m \in IdentitiesOf(self) :
           /\ get_num_requests_per_member(self, m) = Cardinality(Submitted(self, m))
           /\ get_num_requests_per_member(self, m) >= 0
    /\ \A key \in DOMAIN self.num_requests_pk :
           /\ self.num_requests_pk[key] >= 0
           /\ \E m \in IdentitiesOf(self) : key = to_string(m)

\* C12: in every state and for every member identity the stored count
\* (get_num_requests_per_member) is the number of pending records submitted by
\* that identity, and no stored count is negative or belongs to no identity;
\* a call that runs AddMember leaves the counts so as well.
CountMatchesRecords ==
    /\ CountsMatch(Self)
    /\ \A ctx \in Contexts, m \in MemberPool :
           LET c == add_request_and_confirm(
                        Self, ctx, MultiSigRequest(CurrentAccount, <<AddMember(m)>>),
                        block_timestamp)
           IN  c.panic = "" =>
                   /\ CountsMatch(c.self)
                   /\ c.ran =>
                          /\ m \in c.self.members
                          /\ \A i \in Identities :
                                 get_num_requests_per_member(c.self, i) =
                                     get_num_requests_per_member(Self, i)

\* a DeleteMember was run while the removed member had a request pending
CountMatchesRecordsWitness ==
    /\ block_timestamp = 0
    /\ request_nonce = 2
    /\ Pending = {}
    /\ DOMAIN executed = {1}
    /\ executed[1].request.actions = <<DeleteMember(AccessKey("k2"))>>
    /\ AccessKey("k2") \notin members

\* the request holds a DeleteMember of member
Removes(request, member) ==
    \E i \in 1..Len(request.actions) : request.actions[i] = DeleteMember(member)

\* the contexts whose caller resolves to member
CallersOf(member) == {ctx \in Contexts : caller_identity(ctx) = member}

\* the quorum is at least 1 and at most the number of members
QuorumInRange ==
    num_confirmations >= 1 /\ Cardinality(members) >= num_confirmations

\* C13 as stated, for a quorum in range: a member with N pending submissions
\* has count N; a submission makes it N + 1; every confirm call that returns
\* on one of its requests, and every delete_request that returns, makes it
\* N - 1; the count is never below zero.
RoundTrip ==
    QuorumInRange =>
    \A m \in Identities :
        LET N == Cardinality(Submitted(Self, m))
        IN  /\ get_num_requests_per_member(Self, m) = N
            /\ get_num_requests_per_member(Self, m) >= 0
            /\ \A ctx \in CallersOf(m), request \in StorePool :
                   LET a == add_request(Self, ctx, request, block_timestamp)
                   IN  a.panic = "" => get_num_requests_per_member(a.self, m) = N + 1
            /\ \A ctx \in Contexts, id \in Submitted(Self, m) :
                   LET x == confirm(Self, ctx, id)
                       d == delete_request(Self, ctx, id, block_timestamp)
                   IN  /\ x.panic = "" => get_num_requests_per_member(x.self, m) = N - 1
                       /\ d.panic = "" => get_num_requests_per_member(d.self, m) = N - 1

\* C13 amended: a member with N pending submissions has count N; a submission
\* makes it N + 1; a confirm that reaches quorum on one of its requests makes
\* it N - 1, or 0 when the request run removes that member; a confirm below
\* quorum leaves it at N; a delete_request that returns makes it N - 1; the
\* count is never below zero.
RoundTripAtQuorum ==
    \A m \in Identities :
        LET N == Cardinality(Submitted(Self, m))
        IN  /\ get_num_requests_per_member(Self, m) = N
            /\ get_num_requests_per_member(Self, m) >= 0
            /\ \A ctx \in CallersOf(m), request \in StorePool :
                   LET a == add_request(Self, ctx, request, block_timestamp)
                   IN  a.panic = "" => get_num_requests_per_member(a.self, m) = N + 1
            /\ \A ctx \in Contexts, id \in Submitted(Self, m) :
                   LET x == confirm(Self, ctx, id)
                       d == delete_request(Self, ctx, id, block_timestamp)
                   IN  /\ x.panic = "" =>
                              /\ x.ran <=> ReachesQuorum(ctx, id)
                              /\ get_num_requests_per_member(x.self, m) =
                                     IF ~x.ran THEN N
                                     ELSE IF Removes(requests[id].request, m) THEN 0
                                     ELSE N - 1
                              /\ get_num_requests_per_member(x.self, m) >= 0
                       /\ d.panic = "" =>
                              /\ N >= 1
                              /\ get_num_requests_per_member(d.self, m) = N - 1

\* a member holds two requests, one confirmed below quorum with the count
\* still at two, and its next confirm reaches quorum
RoundTripAtQuorumWitness ==
    \E m \in members, ctx \in Contexts, id \in Pending :
        /\ get_num_requests_per_member(Self, m) = 2
        /\ id \in Submitted(Self, m)
        /\ Cardinality(confirmations[id]) = 1
        /\ ReachesQuorum(ctx, id)

\* C14: for every pending request and every calling member, submitter or
\* not, delete_request panics with the cooldown message while
\* now - added_timestamp <= REQUEST_COOLDOWN, leaving the record, its
\* confirmations and the counts as they were, and returns, taking the record
\* out, once now - added_timestamp > REQUEST_COOLDOWN.
CooldownBoundary ==
    \A ctx \in Members(Self), id \in Pending :
        LET age == block_timestamp - requests[id].added_timestamp
            d == delete_request(Self, ctx, id, block_timestamp)
        IN  /\ age >= 0
            /\ age <= REQUEST_COOLDOWN =>
                   /\ d.panic = ERR_COOLDOWN
                   /\ d.self = Self
                   /\ Committed(d).requests = requests
                   /\ Committed(d).confirmations = confirmations
                   /\ Committed(d).num_requests_pk = num_requests_pk
            /\ age > REQUEST_COOLDOWN =>
                   /\ d.panic = ""
                   /\ id \notin DOMAIN d.self.requests
                   /\ id \notin DOMAIN d.self.confirmations

\* a confirmed request is exactly REQUEST_COOLDOWN old and a member other
\* than its submitter can call
CooldownBoundaryWitness ==
    \E ctx \in Members(Self), id \in Pending :
        /\ block_timestamp - requests[id].added_timestamp = REQUEST_COOLDOWN
        /\ caller_identity(ctx) # requests[id].member
        /\ confirmations[id] # {}

\* C15: a delete_request(id) that returns removes the record and the
\* confirmation set of id and nothing else of the two maps, takes one from the
\* count of the request's submitter (not of the caller), leaves every other
\* count, the members, num_confirmations, active_requests_limit and
\* request_nonce as they were, and runs no request.
DeleteFrame ==
    \A ctx \in Contexts, id \in StoreIds :
        LET d == delete_request(Self, ctx, id, block_timestamp)
        IN  d.panic = "" =>
                /\ id \in Pending
                /\ d.self.requests = MapRemove(requests, id)
                /\ d.self.confirmations = MapRemove(confirmations, id)
                /\ DOMAIN d.self.requests = Pending \ {id}
                /\ \A j \in Pending \ {id} :
                       /\ d.self.requests[j] = requests[j]
                       /\ d.self.confirmations[j] = confirmations[j]
                /\ get_num_requests_per_member(d.self, requests[id].member) =
                       get_num_requests_per_member(Self, requests[id].member) - 1
                /\ \A m \in Identities \ {requests[id].member} :
                       get_num_requests_per_member(d.self, m) =
                           get_num_requests_per_member(Self, m)
                /\ DOMAIN d.self.num_requests_pk = DOMAIN num_requests_pk
                /\ d.self.members = members
                /\ d.self.num_confirmations = num_confirmations
                /\ d.self.active_requests_limit = active_requests_limit
                /\ d.self.request_nonce = request_nonce
                /\ ~d.ran
                /\ d.promise = <<>>
                /\ d.value = "none"

\* a member can delete the request of another member while a request of its
\* own, confirmed by someone, is pending
DeleteFrameWitness ==
    \E ctx \in Contexts, id \in Pending, other \in Pending :
        /\ delete_request(Self, ctx, id, block_timestamp).panic = ""
        /\ requests[id].member # caller_identity(ctx)
        /\ requests[other].member = caller_identity(ctx)
        /\ confirmations[id] # {}
        /\ confirmations[other] # {}

\* C16: every add_request that returns hands out the current request_nonce,
\* an id that is neither pending nor was ever run, and raises request_nonce by
\* exactly one; add_request_and_confirm does the same; confirm and
\* delete_request leave request_nonce alone; every id pending or run so far
\* is below request_nonce.
NonceNeverReused ==
    /\ \A id \in Pending \cup DOMAIN confirmations \cup DOMAIN executed :
           id < request_nonce
    /\ \A ctx \in Contexts, request \in StorePool :
           LET a == add_request(Self, ctx, request, block_timestamp)
               c == add_request_and_confirm(Self, ctx, request, block_timestamp)
           IN  /\ a.panic = "" =>
                      /\ a.id = request_nonce
                      /\ a.id \notin Pending \cup DOMAIN executed
                      /\ a.self.request_nonce = request_nonce + 1
                      /\ DOMAIN a.self.requests = Pending \cup {a.id}
               /\ a.panic # "" => a.self.request_nonce = request_nonce
               /\ c.panic = "" =>
                      /\ c.id = request_nonce
                      /\ c.self.request_nonce = request_nonce + 1
                      /\ \A id \in DOMAIN c.self.requests : id < c.self.request_nonce
               /\ Committed(c).request_nonce \in {request_nonce, request_nonce + 1}
    /\ \A ctx \in Contexts, id \in StoreIds :
           /\ confirm(Self, ctx, id).self.request_nonce = request_nonce
           /\ delete_request(Self, ctx, id, block_timestamp).self.request_nonce =
                  request_nonce

\* request 1 is pending, added after the cooldown of request 0, and request 0
\* left the store without being run
NonceNeverReusedWitness ==
    /\ request_nonce = 2
    /\ 1 \in Pending
    /\ 0 \notin Pending
    /\ 0 \notin DOMAIN executed
    /\ requests[1].added_timestamp > REQUEST_COOLDOWN

\* what C17 says of the state `after` left by a call that ran DeleteMember of
\* member from the state `before`, the request run being `ran` (-1: none of
\* the pending ones)
Purged(before, after, member, ran) ==
    /\ member \notin after.members
    /\ Submitted(after, member) = {}
    /\ \A j \in Submitted(before, member) :
           /\ j \notin DOMAIN after.requests
           /\ j \notin DOMAIN after.confirmations
    /\ get_num_requests_per_member(after, member) = 0
    /\ \A j \in DOMAIN before.requests \ (Submitted(before, member) \cup {ran}) :
           /\ j \in DOMAIN after.requests
           /\ after.requests[j] = before.requests[j]
           /\ j \in DOMAIN after.confirmations

\* C17: once a DeleteMember(M) was run, M is not in the registry, no pending
\* request has submitter M, the confirmation sets of M's purged requests are
\* gone and get_num_requests_per_member(M) is 0, while the pending requests of
\* the other members are still in the store; an identity outside the registry
\* holds no pending request.
MemberRemovalPurge ==
    /\ \A m \in Identities \ members :
           /\ Submitted(Self, m) = {}
           /\ get_num_requests_per_member(Self, m) = 0
    /\ \A ctx \in Contexts, m \in MemberPool :
           /\ \A id \in Pending :
                  LET x == confirm(Self, ctx, id)
                  IN  ( /\ requests[id].request =
                              MultiSigRequest(CurrentAccount, <<DeleteMember(m)>>)
                        /\ x.panic = ""
                        /\ x.ran ) => Purged(Self, x.self, m, id)
           /\ LET c == add_request_and_confirm(
                            Self, ctx, MultiSigRequest(CurrentAccount, <<DeleteMember(m)>>),
                            block_timestamp)
               IN  (c.panic = "" /\ c.ran) => Purged(Self, c.self, m, -1)

\* a call runs DeleteMember(M) while a request of M and a request of another
\* member are pending
MemberRemovalPurgeWitness ==
    \E ctx \in Contexts, m \in members, i \in Pending, j \in Pending :
        LET c == add_request_and_confirm(
                     Self, ctx, MultiSigRequest(CurrentAccount, <<DeleteMember(m)>>),
                     block_timestamp)
        IN  /\ c.panic = ""
            /\ c.ran
            /\ requests[i].member = m
            /\ requests[j].member # m
            /\ Purged(Self, c.self, m, -1)
            /\ DOMAIN c.self.requests = {j}

\* add_request(request) and then confirm(id) by the same caller as two calls:
\* each call is committed when it returns and rolled back when it panics
InSequence(ctx, request) ==
    LET a == add_request(Self, ctx, request, block_timestamp)
        first == Committed(a)
        c == confirm(first, ctx, a.id)
    IN  [ id |-> a.id,
          self |-> IF c.panic = "" THEN c.self ELSE first,
          promise |-> IF c.panic = "" THEN c.promise ELSE <<>>,
          ran |-> c.panic = "" /\ c.ran,
          first_panic |-> a.panic,
          second_panic |-> c.panic ]

\* C18 as stated: from every state add_request_and_confirm(request) returns
\* the identifier and leaves the state and the dispatch that add_request
\* followed by confirm of the same member leave; with quorum above 1 the
\* request stays pending with exactly the submitter in its confirmation set.
Composition ==
    \A ctx \in Contexts, request \in StorePool :
        LET r == add_request_and_confirm(Self, ctx, request, block_timestamp)
            q == InSequence(ctx, request)
        IN  /\ Committed(r) = q.self
            /\ r.id = q.id
            /\ r.promise = q.promise
            /\ (num_confirmations > 1 /\ r.panic = "") =>
                   /\ r.id \in DOMAIN r.self.requests
                   /\ r.self.confirmations[r.id] = {to_string(caller_identity(ctx))}

\* C18 amended: whenever add_request_and_confirm(request) returns, it returns
\* the identifier and leaves the state and the dispatch of the two calls in
\* sequence; when it panics it leaves the state as it was, which differs from
\* the two calls exactly when add_request returns and confirm panics, the two
\* calls leaving the request pending and unconfirmed; with quorum above 1 it
\* returns for every member below the limit and the request stays pending with
\* exactly the submitter in its confirmation set.
CompositionWhenReturns ==
    \A ctx \in Contexts, request \in StorePool :
        LET r == add_request_and_confirm(Self, ctx, request, block_timestamp)
            q == InSequence(ctx, request)
        IN  /\ r.panic = "" =>
                   /\ r.self = q.self
                   /\ r.id = q.id
                   /\ r.id = request_nonce
                   /\ r.promise = q.promise
                   /\ r.ran = q.ran
            /\ r.panic # "" =>
                   /\ Committed(r) = Self
                   /\ r.id = -1
                   /\ q.first_panic # "" => q.self = Self
                   /\ q.first_panic = "" =>
                          /\ q.second_panic = r.panic
                          /\ q.id \in DOMAIN q.self.requests
                          /\ q.self.confirmations[q.id] = {}
                          /\ q.self.request_nonce = request_nonce + 1
            /\ ( /\ num_confirmations > 1
                  /\ ctx \in Members(Self)
                  /\ get_num_requests_per_member(Self, caller_identity(ctx)) + 1
                         <= active_requests_limit ) =>
                   /\ r.panic = ""
                   /\ ~r.ran
                   /\ r.id \in DOMAIN r.self.requests
                   /\ r.self.confirmations[r.id] = {to_string(caller_identity(ctx))}

\* under quorum 2 a request is pending with exactly its submitter in its
\* confirmation set
CompositionWhenReturnsWitness ==
    \E id \in Pending :
        /\ num_confirmations = 2
        /\ confirmations[id] = {to_string(requests[id].member)}
        /\ requests[id].request = MultiSigRequest(CurrentAccount, <<DeleteMember(AccessKey("k2"))>>)

\* the reasons for which a call fails
FailureReasons ==
    {ERR_NOT_MEMBER_ADD, ERR_NOT_MEMBER, ERR_NO_REQUEST, ERR_ALREADY, ERR_TOO_MANY,
     ERR_COOLDOWN, ERR_SELF_REQUEST, ERR_SEPARATE, ERR_BELOW_QUORUM}

\* a call with result r failed and is wholly undone: it fails for one of the
\* known reasons, schedules no promise, returns no id, and the state it
\* leaves is the state before the call
Undone(r) ==
    /\ r.panic \in FailureReasons
    /\ r.promise = <<>>
    /\ r.id = -1
    /\ Committed(r) = Self

Gone(r) == Pending \ DOMAIN r.self.requests

\* the pending requests whose submitter the request removes
PurgedBy(request) == {j \in Pending : Removes(request, requests[j].member)}

Age(id) == block_timestamp - requests[id].added_timestamp

\* C20 as stated, for a quorum in range: a pending request leaves the store
\* without being run only through a delete_request call made on it after its
\* cooldown; add_request takes none out, and a confirm or
\* add_request_and_confirm takes out only the request it runs.
OnlyDeleteCancels ==
    QuorumInRange =>
    /\ \A ctx \in Contexts, request \in StorePool :
           LET a == add_request(Self, ctx, request, block_timestamp)
               c == add_request_and_confirm(Self, ctx, request, block_timestamp)
           IN  /\ a.panic = "" => Gone(a) = {}
               /\ c.panic = "" => Gone(c) = {}
    /\ \A ctx \in Contexts, id \in StoreIds :
           LET x == confirm(Self, ctx, id)
               d == delete_request(Self, ctx, id, block_timestamp)
           IN  /\ x.panic = "" => Gone(x) = IF x.ran THEN {id} ELSE {}
               /\ d.panic = "" =>
                      /\ Gone(d) = {id}
                      /\ Age(id) > REQUEST_COOLDOWN

\* C20 amended: a pending request leaves the store without being run only
\* through a delete_request call made on it after its cooldown, or when a
\* DeleteMember of its submitter is run, whatever its age; add_request takes
\* none out, and a confirm or add_request_and_confirm takes out only the
\* request it runs and the requests of the members that request removes.
OnlyDeleteOrPurgeCancels ==
    /\ \A ctx \in Contexts, request \in StorePool :
           LET a == add_request(Self, ctx, request, block_timestamp)
               c == add_request_and_confirm(Self, ctx, request, block_timestamp)
           IN  /\ a.panic = "" => Gone(a) = {}
               /\ c.panic = "" => Gone(c) = IF c.ran THEN PurgedBy(request) ELSE {}
    /\ \A ctx \in Contexts, id \in StoreIds :
           LET x == confirm(Self, ctx, id)
               d == delete_request(Self, ctx, id, block_timestamp)
           IN  /\ x.panic = "" =>
                      Gone(x) = IF x.ran THEN {id} \cup PurgedBy(requests[id].request)
                                ELSE {}
               /\ d.panic = "" =>
                      /\ Gone(d) = {id}
                      /\ Age(id) > REQUEST_COOLDOWN

\* a confirm ran the DeleteMember of request 0 while request 1 was pending,
\* and request 1 left the store before its cooldown and without being run
OnlyDeleteOrPurgeCancelsWitness ==
    /\ block_timestamp <= REQUEST_COOLDOWN
    /\ request_nonce = 2
    /\ Pending = {}
    /\ DOMAIN executed = {0}
    /\ executed[0].request.actions = <<DeleteMember(AccessKey("k2"))>>
    /\ executed[0].k >= 1

\* the promise chains a callback into a method of the contract
CallsBack(promise) ==
    \E i \in 1..Len(promise) : promise[i].action \in {"then", "function_call"}

\* the result r of a call that ran a request dispatches it the way C21 says:
\* a completion callback on_transaction_completed follows the transaction
DispatchesInSequence(r) ==
    (r.panic = "" /\ r.ran /\ r.value = "promise") =>
        /\ "on_transaction_completed" \in Methods
        /\ CallsBack(r.promise)

OneBatch(r, request) ==
    (r.panic = "" /\ r.ran) =>
        /\ r.value = "promise"
        /\ ~CallsBack(r.promise)
        /\ Len(r.promise) = Len(request.actions)
        /\ \A i \in 1..Len(r.promise) :
               r.promise[i].action =
                   IF request.actions[i].type = "Transfer" THEN "transfer"
                   ELSE "add_full_access_key"

StaysBelowQuorum(ctx, request_id) ==
    /\ request_id \in Pending
    /\ ctx \in Members(Self)
    /\ to_string(caller_identity(ctx)) \notin confirmations[request_id]
    /\ Cardinality(confirmations[request_id]) + 1 < num_confirmations

\* C22: a confirm call that does not reach quorum returns true, adds exactly
\* the caller's identity to the confirmation set of the request, leaves the
\* request pending and changes nothing else: the records, the other
\* confirmation sets, the counts, request_nonce, the members,
\* num_confirmations and active_requests_limit stay as they were and nothing
\* is dispatched.  A confirm call returns without running the request only so.
ConfirmFrame ==
    \A ctx \in Contexts, id \in StoreIds :
        LET x == confirm(Self, ctx, id)
        IN  /\ StaysBelowQuorum(ctx, id) =>
                   /\ x.panic = ""
                   /\ x.value = "true"
                   /\ ~x.ran
                   /\ x.promise = <<>>
                   /\ x.self.confirmations[id] =
                          confirmations[id] \cup {to_string(caller_identity(ctx))}
                   /\ Cardinality(x.self.confirmations[id]) =
                          Cardinality(confirmations[id]) + 1
                   /\ DOMAIN x.self.confirmations = DOMAIN confirmations
                   /\ \A j \in DOMAIN confirmations \ {id} :
                          x.self.confirmations[j] = confirmations[j]
                   /\ x.self.requests = requests
                   /\ id \in DOMAIN x.self.requests
                   /\ x.self.num_requests_pk = num_requests_pk
                   /\ x.self.request_nonce = request_nonce
                   /\ x.self.members = members
                   /\ x.self.num_confirmations = num_confirmations
                   /\ x.self.active_requests_limit = active_requests_limit
            /\ (x.panic = "" /\ ~x.ran) => StaysBelowQuorum(ctx, id)

\* two requests are pending, each confirmed below quorum by a different
\* member, the second by a member who did not submit it
ConfirmFrameWitness ==
    \E i \in Pending, j \in Pending :
        /\ i # j
        /\ Cardinality(confirmations[i]) = 1
        /\ Cardinality(confirmations[j]) = 1
        /\ confirmations[i] # confirmations[j]
        /\ to_string(requests[j].member) \notin confirmations[j]
        /\ get_num_requests_per_member(Self, requests[j].member) >= 1

\* the configuration after the call with result r, the one value excepted
\* that the action of type `type` sets
ConfigSet(r, type, n) ==
    /\ r.panic = ""
    /\ r.ran
    /\ r.value = "true"
    /\ r.promise = <<>>
    /\ r.self.num_confirmations =
           IF type = "SetNumConfirmations" THEN n ELSE num_confirmations
    /\ r.self.active_requests_limit =
           IF type = "SetActiveRequestsLimit" THEN n ELSE active_requests_limit
    /\ r.self.members = members

\* the values the configuration requests carry
ConfigValues == 0..(MaxQuorum + 1)

\* C23: when a single-action request to the contract's own account that
\* holds SetNumConfirmations{n} (or SetActiveRequestsLimit{n}) reaches
\* quorum, the confirming call sets num_confirmations (or
\* active_requests_limit) to exactly n, returns true, schedules no promise
\* and leaves the other of the two values and the members as they were.
ConfigShortCircuit ==
    /\ \A ctx \in Contexts, id \in Pending :
           LET request == requests[id].request
           IN  ( /\ ReachesQuorum(ctx, id)
                 /\ request.receiver_id = CurrentAccount
                 /\ Len(request.actions) = 1
                 /\ request.actions[1].type = "SetNumConfirmations" ) =>
                   ConfigSet(confirm(Self, ctx, id), "SetNumConfirmations",
                             request.actions[1].num_confirmations)
    /\ \A ctx \in Contexts, id \in Pending :
           LET request == requests[id].request
           IN  ( /\ ReachesQuorum(ctx, id)
                 /\ request.receiver_id = CurrentAccount
                 /\ Len(request.actions) = 1
                 /\ request.actions[1].type = "SetActiveRequestsLimit" ) =>
                   ConfigSet(confirm(Self, ctx, id), "SetActiveRequestsLimit",
                             request.actions[1].active_requests_limit)
    /\ \A ctx \in Members(Self), n \in ConfigValues :
           ( /\ num_confirmations <= 1
             /\ get_num_requests_per_member(Self, caller_identity(ctx)) + 1
                    <= active_requests_limit ) =>
               /\ ConfigSet(add_request_and_confirm(
                                Self, ctx,
                                MultiSigRequest(CurrentAccount, <<SetNumConfirmations(n)>>),
                                block_timestamp),
                            "SetNumConfirmations", n)
               /\ ConfigSet(add_request_and_confirm(
                                Self, ctx,
                                MultiSigRequest(CurrentAccount, <<SetActiveRequestsLimit(n)>>),
                                block_timestamp),
                            "SetActiveRequestsLimit", n)

\* under quorum 1, lowered from 2 by a request that two members confirmed,
\* one member can lower the limit while the other's request is pending
ConfigShortCircuitWitness ==
    \E id \in DOMAIN executed, ctx \in Members(Self), j \in Pending :
        /\ executed[id].request.actions = <<SetNumConfirmations(1)>>
        /\ executed[id].k = 2
        /\ executed[id].n = 2
        /\ num_confirmations = 1
        /\ requests[j].request.actions = <<SetActiveRequestsLimit(0)>>
        /\ ReachesQuorum(ctx, j)

\* every key that the promise authorizes for a member is scoped as C24 says
KeysScoped(promise) ==
    \A i \in 1..Len(promise) :
        promise[i].action = "add_access_key" =>
            /\ promise[i].receiver_id = CurrentAccount
            /\ method_names_of(promise[i].method_names) = MemberOperations
            /\ method_names_of(promise[i].method_names) \subseteq Methods

\* C24: the signing key authorized for a KeyHolder member, at construction
\* and by an executed AddMember, is scoped to the contract's own account and
\* permits exactly add_request, add_request_and_confirm, confirm and
\* delete_request.
KeyScope ==
    /\ ~state_exists =>
           \A list \in MemberLists, k \in 0..MaxQuorum : KeysScoped(new(list, k).promise)
    /\ \A ctx \in Contexts, id \in Pending : KeysScoped(confirm(Self, ctx, id).promise)
    /\ \A ctx \in Contexts, m \in MemberPool :
           KeysScoped(add_request_and_confirm(
                          Self, ctx, MultiSigRequest(CurrentAccount, <<AddMember(m)>>),
                          block_timestamp).promise)

\* C25: in every state the ids with a pending record are the ids with a
\* confirmation set, so no confirm, delete_request or add_request_and_confirm
\* fails with "Internal error: confirmations mismatch requests", and the
\* state each of them leaves keeps the two sets of ids equal.
StoreDomainsAgree ==
    /\ DOMAIN requests = DOMAIN confirmations
    /\ \A ctx \in Contexts, id \in StoreIds :
           LET x == confirm(Self, ctx, id)
               d == delete_request(Self, ctx, id, block_timestamp)
           IN  /\ x.panic # ERR_MISMATCH
               /\ d.panic # ERR_MISMATCH
               /\ assert_valid_request(Self, ctx, id) # ERR_MISMATCH
               /\ x.panic = "" => DOMAIN x.self.requests = DOMAIN x.self.confirmations
               /\ d.panic = "" => DOMAIN d.self.requests = DOMAIN d.self.confirmations
    /\ \A ctx \in Contexts, request \in StorePool :
           LET c == add_request_and_confirm(Self, ctx, request, block_timestamp)
           IN  /\ c.panic # ERR_MISMATCH
               /\ c.panic = "" => DOMAIN c.self.requests = DOMAIN c.self.confirmations

\* a request is pending with a confirmation set after another left the
\* store at quorum by a DeleteMember that removed a member
StoreDomainsAgreeWitness ==
    \E id \in DOMAIN executed, j \in Pending :
        /\ executed[id].request.actions = <<DeleteMember(AccessKey("k2"))>>
        /\ AccessKey("k2") \notin members
        /\ j \in DOMAIN confirmations
        /\ id \notin DOMAIN confirmations

\* every identity in the confirmation set belongs to a member of self
ConfirmedByMembers(self, confs) ==
    \A key \in confs : \E m \in self.members : key = to_string(m)

\* C26: in every state every identity in the confirmation set of a pending
\* request is a current member, and no confirm call runs a request whose
\* confirmation set holds the identity of a member removed since.
ConfirmersAreMembers ==
    QuorumInRange =>
        /\ \A id \in Pending : ConfirmedByMembers(Self, confirmations[id])
        /\ \A ctx \in Contexts, id \in Pending :
               LET x == confirm(Self, ctx, id)
               IN  (x.panic = "" /\ x.ran) =>
                       ConfirmedByMembers(Self, confirmations[id])

\* every count of self is at most the limit of self
WithinLimit(self) ==
    \A m \in IdentitiesOf(self) :
        get_num_requests_per_member(self, m) <= self.active_requests_limit

\* C27 as stated: in every state every member's count is at most
\* active_requests_limit, also after an executed SetActiveRequestsLimit.
CountsWithinLimit == WithinLimit(Self)

\* add_request keeps its caller within the limit
AdmitsWithinLimit ==
    \A ctx \in Members(Self), request \in LimitPool :
        LET member == caller_identity(ctx)
            a == add_request(Self, ctx, request, block_timestamp)
        IN  /\ a.panic = "" =>
                   get_num_requests_per_member(a.self, member)
                       <= a.self.active_requests_limit
            /\ get_num_requests_per_member(Self, member) >= active_requests_limit =>
                   a.panic = ERR_TOO_MANY

\* a step that does not lower the limit keeps the counts within it
KeepsWithinLimit ==
    (WithinLimit(Self) /\ active_requests_limit' >= active_requests_limit) =>
        WithinLimit(Self)'

\* C27 amended: every add_request that returns leaves its caller's count at
\* most active_requests_limit, a member whose count is at or above the limit
\* is admitted no request, and every step that does not lower the limit
\* keeps every count at most the limit.  An executed SetActiveRequestsLimit
\* that lowers the limit below a member's count purges nothing: the count
\* stays above the limit until requests of that member are run or deleted.
CountsWithinAdmittedLimit == []AdmitsWithinLimit /\ [][KeepsWithinLimit]_vars

\* the limit was lowered to 1 while a member had one request pending, and
\* that member is at the limit
CountsWithinAdmittedLimitWitness ==
    \E id \in DOMAIN executed, m \in members :
        /\ executed[id].request.actions = <<SetActiveRequestsLimit(1)>>
        /\ active_requests_limit = 1
        /\ get_num_requests_per_member(Self, m) = 1
        /\ Submitted(Self, m) # {}

\* C28 as stated, for a quorum in range: in every state every pending
\* request has strictly fewer recorded confirmations than num_confirmations,
\* also after an executed SetNumConfirmations or DeleteMember.
PendingBelowQuorum ==
    QuorumInRange =>
        \A id \in Pending : Cardinality(confirmations[id]) < num_confirmations

\* every pending request of self has no confirmation or fewer than the quorum
BelowQuorumOrEmpty(self) ==
    \A id \in DOMAIN self.requests :
        \/ self.confirmations[id] = {}
        \/ Cardinality(self.confirmations[id]) < self.num_confirmations

\* a confirm call never leaves the request it confirms pending with
\* quorum-many confirmations, and never adds a confirmation to a request
\* that holds quorum-many already
LeavesBelowQuorum ==
    \A ctx \in Contexts, id \in Pending :
        LET x == confirm(Self, ctx, id)
        IN  /\ (x.panic = "" /\ id \in DOMAIN x.self.requests) =>
                   /\ ~x.ran
                   /\ Cardinality(x.self.confirmations[id]) < x.self.num_confirmations
            /\ (x.panic = "" /\ Cardinality(confirmations[id]) >= num_confirmations) =>
                   /\ x.ran
                   /\ id \notin DOMAIN x.self.requests

\* a step that does not lower the quorum keeps the pending requests below it
KeepsBelowQuorum ==
    (BelowQuorumOrEmpty(Self) /\ num_confirmations' >= num_confirmations) =>
        BelowQuorumOrEmpty(Self)'

\* C28 amended: every request that a confirm call leaves pending has
\* strictly fewer recorded confirmations than num_confirmations, and every
\* step that does not lower num_confirmations, an executed DeleteMember
\* included, keeps every pending request with no confirmation or with fewer
\* than num_confirmations.  An executed SetNumConfirmations that lowers the
\* quorum to the confirmations of a pending request, or below, leaves that
\* request pending; the next confirm call of a member who has not confirmed
\* it runs it.
PendingBelowUnloweredQuorum == []LeavesBelowQuorum /\ [][KeepsBelowQuorum]_vars

\* the quorum was lowered from 2 to 1 while a request with one confirmation
\* was pending, and a member who has not confirmed it can call
PendingBelowUnloweredQuorumWitness ==
    \E id \in DOMAIN executed, j \in Pending, ctx \in Members(Self) :
        /\ executed[id].request.actions = <<SetNumConfirmations(1)>>
        /\ executed[id].k = 2
        /\ num_confirmations = 1
        /\ Cardinality(confirmations[j]) = 1
        /\ to_string(caller_identity(ctx)) \notin confirmations[j]

====
